---- MODULE Spec2Model ----
(***************************************************************************)
(* Crawl scheduling and follow/unfollow reconciliation of the artifish     *)
(* social-graph workers.                                                   *)
(*                                                                         *)
(*   - the database-queue traversal worker (NetworkTraversal of            *)
(*     workers/network_traversal_db_queue.py): one account visit at a time *)
(*   - the standalone unfollow detector (workers/unfollow_detector.py)     *)
(*   - the check-then-insert edge writer of the in-memory-queue crawler    *)
(*     (workers/network_traversal.py, _store_follow)                       *)
(*   - the rate-limited API client (BlueskyAPIClient of                    *)
(*     workers/network_traversal_db_queue.py)                              *)
(*                                                                         *)
(* The workers are separate processes sharing the `follows` and            *)
(* `bluesky_accounts` tables.  SpecWorker is one visit after another of the *)
(* db-queue worker, SpecStore is the writers of `follows` interleaved, and *)
(* SpecClient is the API client on its own, with the wall clock in seconds.*)
(***************************************************************************)
EXTENDS Integers, Sequences, FiniteSets, TLC

\* ------------------------------------------------------------------ bounds
NumSubjects == 1
NumTargets == 3
PageSize == 1
MaxPages == 2
MaxTime == 1
MaxRows == 3
MaxAccountsCap == 2
MinInterval == 1
MaxAccountsLong == 60

QueueDids == 1..3
SeedDids == {1, 2}
PriorityValues == {10, 50}
FollowerDids == {2}
Subjects == 1..NumSubjects
Targets == (NumSubjects + 1)..(NumSubjects + NumTargets)
DIDs == Subjects \cup Targets

NoDid == 0
NoTime == -1

MaxClock == 61
MaxTokenClock == 3350

\* ------------------------------------------------------- program constants
max_pages == 3
FollowerPriority == 50
LowWaterMark == 10
DefaultRemaining == 100
DefaultReset == 0
FallbackRemaining == 10
FallbackCooldown == 60
SleepBuffer == 1
buffer_time == 300
TokenLifetime == 3600
SeedPriority == 100
RecommendedPriority == 70
max_priority == 80
BatchCap == 10
PriorityPeriod == 50

\* ------------------------------------------------------------ input sets
\* how far the wall clock moves between two steps of the client
ClockSteps == {30}
\* the same over the lifetime of a token
TokenClockSteps == {1000, 3299, 3300, 3350}

\* steps of time.time() that take a fresh token to the edge of its safety buffer
LateClockSteps == {3299, 3300}

\* ratelimit-remaining and ratelimit-reset, where they are numbers
RemainingValues == {5, 50}
ResetValues == {30}

VARIABLES
  \* ---- the durable store
  follows,        \* table `follows`: a set of rows
  accounts,       \* table `bluesky_accounts`, by did
  now,            \* datetime.now() / NOW() of the store, in ticks
  \* ---- NetworkTraversal._process_account (db-queue worker)
  pc,             \* position of the worker
  did,            \* account being visited
  follows_dids,   \* list built by _collect_all_follows
  cursor,         \* TRUE when the last page carried a cursor
  pages,          \* page counter of the running pagination loop
  stats,          \* result row of process_account_follows
  visit,          \* history of the current or last visit
  last_recon,     \* history: the last operation that wrote `follows`
  \* ---- UnfollowDetector._process_account_unfollows
  det_pc,
  det_did,
  db_follows,     \* {following_did: id} read at the start of the pass
  current_follows,\* set built by get_all_follows
  det_pages,      \* pages fetched so far by get_all_follows
  det_todo,       \* unfollowed_dids not yet written
  det_hist,       \* history of the current pass
  \* ---- BlueskyAPIClient (db-queue worker)
  credentials,    \* username and password are configured
  auth_token,     \* TRUE when a token is held
  token_created_at,
  token_expires_in,
  rate_limit_remaining,
  rate_limit_reset,
  time,           \* time.time(), in seconds
  cl_pc,          \* position of the client
  cl_method,      \* the request being made
  cl_ret,         \* where _authenticate returns to
  cl_outer,       \* get_profile: the describeRepo response held meanwhile
  cl_hist,        \* history of the responses received and the last request sent
  \* ---- NetworkTraversal.start (db-queue worker)
  run_pc,         \* position of start()
  seed_handles,   \* seed handles not yet handled by _add_seed_accounts
  max_accounts,
  batch,          \* accounts of the batch not yet visited
  total_processed,
  run_hist,       \* history of the run
  other_did,      \* the account another worker process is visiting
  \* ---- the check-then-insert edge writers
  writers         \* by worker: the pair it is storing and the rows its check found

store_vars == <<follows, accounts, now>>
visit_vars == <<pc, did, follows_dids, cursor, pages, stats, visit>>
det_vars == <<det_pc, det_did, db_follows, current_follows, det_pages, det_todo,
              det_hist>>
token_vars == <<credentials, auth_token, token_created_at, token_expires_in>>
budget_vars == <<rate_limit_remaining, rate_limit_reset>>
client_vars == <<token_vars, budget_vars, time, cl_pc, cl_method, cl_ret, cl_outer,
                 cl_hist>>
run_vars == <<run_pc, seed_handles, max_accounts, batch, total_processed, run_hist,
              other_did>>
vars == <<store_vars, visit_vars, last_recon, det_vars, client_vars, run_vars, writers>>

\* ------------------------------------------------------------ helpers
Min(S) == CHOOSE x \in S : \A y \in S : x <= y

RECURSIVE SetToSeq(_)
\* the elements of a set of dids as a list, in the order the API lists them
SetToSeq(S) == IF S = {} THEN <<>> ELSE <<Min(S)>> \o SetToSeq(S \ {Min(S)})

Range(s) == {s[i] : i \in 1..Len(s)}

\* a page of a follow or follower list: at most PageSize actors
PagesOver(U) == {P \in SUBSET U : Cardinality(P) <= PageSize}

\* ----------------------------------------------------- table `follows`
\* rows of the subject's edges, and the dids with an active edge from it
RowsOf(s) == {r \in follows : r.follower_did = s}
ActiveSet(s) == {r.following_did : r \in {q \in RowsOf(s) : q.follow_status = "active"}}

\* a row as the store creates it on insert (follow_status defaults to active)
NewRow(id, f, g, t) ==
  [id |-> id, follower_did |-> f, following_did |-> g, follow_status |-> "active",
   created_at |-> t, last_verified_at |-> t, unfollowed_at |-> NoTime]

\* the rows of the ordered pair (f, g)
RowsOfPair(f, g) == {r \in follows : r.follower_did = f /\ r.following_did = g}

\* the `id` column: a fresh key for every inserted row, written here as the
\* pair and the ordinal of the row among the rows of its pair
NextId(f, g) == <<f, g, Cardinality(RowsOfPair(f, g)) + 1>>

\* step 5 of the reconciliation: an active edge that is gone is retired
Retire(r, t) == [r EXCEPT !.follow_status = "unfollowed", !.unfollowed_at = t]

\* a refresh that rewrites the whole row as on insert
Refresh_AsInsert(r, t) == [r EXCEPT !.created_at = t, !.last_verified_at = t]

\* step 4 of the reconciliation: a maintained edge is refreshed
Refresh(r, t) == [r EXCEPT !.last_verified_at = t]

\* the reconciliation without its step 5: gone edges stay active
ProcessAccountFollows_KeepsGone(s, F, t) ==
  {IF r.follower_did = s /\ r.follow_status = "active" /\ r.following_did \in F
   THEN Refresh(r, t) ELSE r : r \in follows}
  \cup {NewRow(NextId(s, d), s, d, t) : d \in F \ ActiveSet(s)}

\* stored procedure process_account_follows(account_did, current_follows):
\* the table after the call at time t, F being the observed set
ProcessAccountFollows(s, F, t) ==
  LET S == ActiveSet(s)
      New == F \ S
      kept == {r \in follows : r.follower_did # s \/ r.follow_status # "active"}
      mine == {r \in follows : r.follower_did = s /\ r.follow_status = "active"}
      touched == {IF r.following_did \in F THEN Refresh(r, t) ELSE Retire(r, t) : r \in mine}
      inserted == {NewRow(NextId(s, d), s, d, t) : d \in New}
  IN kept \cup touched \cup inserted

\* the counts the procedure returns
FollowStats(s, F) ==
  LET S == ActiveSet(s)
  IN [new_follows_count |-> Cardinality(F \ S),
      maintained_follows_count |-> Cardinality(F \cap S),
      unfollowed_count |-> Cardinality(S \ F)]

NoStats == [new_follows_count |-> 0, maintained_follows_count |-> 0, unfollowed_count |-> 0]

\* ------------------------------------------------ table `bluesky_accounts`
\* stored procedure mark_account_crawled(account_did, status)
MarkAccountCrawled(d, status) ==
  IF accounts[d].known
  THEN [accounts EXCEPT ![d].crawl_status = status, ![d].last_crawled = now]
  ELSE accounts

\* _store_user for each did of U: the account row exists afterwards.  The
\* table is followed for the accounts the queue hands out (Subjects); the rows
\* of the other accounts are written and never read by the workers.
StoreUsers(acc, U) ==
  [d \in DOMAIN acc |-> IF d \in U THEN [acc[d] EXCEPT !.known = TRUE] ELSE acc[d]]

\* update {crawl_priority: 50, crawl_status: pending} .eq(did) for each did of E
EnqueueFollowers(acc, E) ==
  [d \in DOMAIN acc |-> IF d \in E /\ acc[d].known
                  THEN [acc[d] EXCEPT !.crawl_priority = FollowerPriority,
                                      !.crawl_status = "pending"]
                  ELSE acc[d]]

\* the last call of _add_recommended_accounts since the last batch was asked
\* for: whether every store call returned, and the accounts recommended
NoRecommend == [called |-> FALSE, ok |-> FALSE, R |-> {}]

\* history of a run of start(): the accounts seeded and visited, the visits
\* that finished, whether the total reached a multiple of PriorityPeriod since
\* the priorities were last recomputed (owed), the last replenishment, and how
\* the run ended
NoRun ==
  [seeded |-> {}, visited |-> {}, nonseed_first |-> FALSE, started |-> 0,
   finished |-> 0, last_outcome |-> "none", owed |-> FALSE,
   recommend |-> NoRecommend, shutdown |-> FALSE,
   abandoned |-> FALSE, closed |-> FALSE, reported |-> NoTime]

\* ============================================================ db-queue worker
\* NetworkTraversal._process_account(did, handle), one step per await or RPC

\* history of a visit: what was requested, issued and marked so far
NoVisit ==
  [profile |-> "pending", follows_requested |-> FALSE, followers_requested |-> FALSE,
   page_failed |-> FALSE, reconciled |-> "no", raised |-> FALSE, issued |-> {},
   marked |-> {}]

\* history of table `follows`: the reconciliation call that wrote it last, and
\* whether the call before it (no other write between) had the same arguments
NoRecon == [did |-> NoDid, F |-> {}, runs |-> 0]

AfterRecon(s, F) ==
  [did |-> s, F |-> F,
   runs |-> IF last_recon.did = s /\ last_recon.F = F THEN 2 ELSE 1]

\* the visit without the early return on a missing profile
AfterProfile_NoEarlyReturn(profile_ok) == "collect_follows"

\* `if not profile: ... mark failed ... return`, else go on to the follows
AfterProfile(profile_ok) == IF profile_ok THEN "collect_follows" ELSE "mark_failed"

\* a raising store call passed over, the visit going on with `next`
AfterCall_PassedOver(ok, next) == next

\* the `except Exception` of _process_account: a raising store call goes to the
\* error mark, a returning one to `next`
AfterCall(ok, next) == IF ok THEN next ELSE "mark_error"

\* get_follows(): the "follows" of the result; an HTTP error or an exception
\* is logged and answered with {"follows": []}
FollowsOf(ok, P) == IF ok THEN P ELSE {}

\* _process_account(did, handle) is entered: its locals
BeginVisit(d) ==
  /\ pc' = "get_profile"
  /\ did' = d
  /\ follows_dids' = <<>>
  /\ cursor' = FALSE
  /\ pages' = 0
  /\ stats' = NoStats
  /\ visit' = NoVisit

\* _process_account is left: its locals end
EndVisit ==
  /\ pc' = "idle"
  /\ did' = NoDid
  /\ follows_dids' = <<>>
  /\ cursor' = FALSE
  /\ pages' = 0
  /\ stats' = NoStats
  /\ visit' = NoVisit

\* line 289: the loop of start() calls _process_account for an account of the batch
ProcessAccount(d) ==
  /\ pc = "idle"
  /\ accounts[d].known
  /\ BeginVisit(d)
  /\ UNCHANGED <<writers, store_vars, last_recon, det_vars, client_vars, run_vars>>

\* lines 392-405: get_profile, the early return, _store_user
GetProfile ==
  /\ pc = "get_profile"
  /\ \E profile_ok \in BOOLEAN :
       /\ pc' = AfterProfile(profile_ok)
       /\ visit' = [visit EXCEPT !.profile = IF profile_ok THEN "ok" ELSE "none"]
       /\ accounts' = StoreUsers(accounts, IF profile_ok THEN {did} ELSE {})
  /\ UNCHANGED <<writers, follows, now, did, follows_dids, cursor, pages, stats,
                 last_recon, det_vars, client_vars, run_vars>>

\* lines 396-400: mark_account_crawled(did, 'failed') and return
MarkFailed ==
  /\ pc = "mark_failed"
  /\ \E ok \in BOOLEAN :
       /\ pc' = AfterCall(ok, "done")
       /\ accounts' = IF ok THEN MarkAccountCrawled(did, "failed") ELSE accounts
       /\ visit' = [visit EXCEPT !.issued = @ \cup {"failed"},
                                 !.marked = IF ok THEN @ \cup {"failed"} ELSE @,
                                 !.raised = ~ok]
  /\ UNCHANGED <<writers, follows, now, did, follows_dids, cursor, pages, stats,
                 last_recon, det_vars, client_vars, run_vars>>

\* _collect_all_follows, one iteration of `while True` (lines 448-471)
GetFollowsPageFrom(U) ==
  /\ pc = "collect_follows"
  /\ \E ok \in BOOLEAN, P \in PagesOver(U), more \in BOOLEAN :
       /\ ~ok => (P = {} /\ ~more)
       /\ more => (P # {} /\ pages + 1 < MaxPages)
       /\ follows_dids' = follows_dids \o SetToSeq(FollowsOf(ok, P))
       /\ accounts' = StoreUsers(accounts, FollowsOf(ok, P) \cap DOMAIN accounts)
       /\ cursor' = more
       /\ pages' = IF FollowsOf(ok, P) # {} /\ more THEN pages + 1 ELSE pages
       /\ pc' = IF FollowsOf(ok, P) # {} /\ more THEN "collect_follows"
                                                 ELSE "followers_choice"
       /\ visit' = [visit EXCEPT !.follows_requested = TRUE,
                                 !.page_failed = @ \/ ~ok]
  /\ UNCHANGED <<writers, follows, now, did, stats, last_recon, det_vars, client_vars, run_vars>>

\* the subject follows accounts among Targets
GetFollowsPage == GetFollowsPageFrom(Targets)

\* the subject follows nobody
GetFollowsPageOfNone == GetFollowsPageFrom({})

\* the visit going from the follows to the completed mark when no followers
\* are sampled
AfterSampling_SkipsReconcile(sample) ==
  IF sample THEN "collect_followers" ELSE "mark_completed"

\* lines 411-415: the followers are sampled or not; either way the
\* reconciliation comes next
AfterSampling(sample) == IF sample THEN "collect_followers" ELSE "reconcile"

\* line 411: `if random.random() < 0.5`
FollowersChoice ==
  /\ pc = "followers_choice"
  /\ \E sample \in BOOLEAN :
       pc' = AfterSampling(sample)
  /\ cursor' = FALSE
  /\ pages' = 0
  /\ UNCHANGED <<writers, store_vars, did, follows_dids, stats, visit, last_recon,
                 det_vars, client_vars, run_vars>>

\* _collect_some_followers, one iteration of `while pages < max_pages`
\* (lines 482-514).  E: the followers the 20% draw enqueues; raised: the
\* follower whose queue update raised (NoDid: none), which ends the visit in
\* the `except` of _process_account.
GetFollowersPageFrom(U) ==
  /\ pc = "collect_followers"
  /\ \E ok \in BOOLEAN, P \in PagesOver(U), more \in BOOLEAN :
       /\ ~ok => (P = {} /\ ~more)
       /\ more => P # {}
       /\ \E E \in SUBSET P, raised \in P \cup {NoDid} :
            /\ raised # NoDid => raised \in E
            /\ accounts' = EnqueueFollowers(StoreUsers(accounts, P), E \ {raised})
            /\ cursor' = more
            /\ pages' = IF more /\ raised = NoDid THEN pages + 1 ELSE pages
            /\ pc' = IF raised # NoDid THEN "mark_error"
                     ELSE IF more /\ pages + 1 < max_pages THEN "collect_followers"
                     ELSE "reconcile"
            /\ visit' = [visit EXCEPT !.followers_requested = TRUE,
                                      !.raised = raised # NoDid]
  /\ UNCHANGED <<writers, follows, now, did, follows_dids, stats, last_recon,
                 det_vars, client_vars, run_vars>>

\* the followers are among Subjects
GetFollowersPage == GetFollowersPageFrom(Subjects)

\* the followers are among the accounts of the queue
GetFollowersPageOfQueue == GetFollowersPageFrom(FollowerDids)

\* rpc('process_account_follows', {account_did: s, current_follows: F}).execute()
\* returning: the table is reconciled (the counts are FollowStats(s, F))
CallProcessAccountFollows(s, F) ==
  /\ Cardinality(follows) + Cardinality(F \ ActiveSet(s)) <= MaxRows
  /\ follows' = ProcessAccountFollows(s, F, now)
  /\ last_recon' = AfterRecon(s, F)

\* lines 415-424: rpc process_account_follows(did, follows_dids)
Reconcile ==
  /\ pc = "reconcile"
  /\ \E ok \in BOOLEAN :
       /\ pc' = AfterCall(ok, "mark_completed")
       /\ visit' = [visit EXCEPT !.reconciled = IF ok THEN "ok" ELSE "raised",
                                 !.raised = ~ok]
       /\ IF ok THEN /\ CallProcessAccountFollows(did, Range(follows_dids))
                     /\ stats' = FollowStats(did, Range(follows_dids))
                ELSE UNCHANGED <<follows, stats, last_recon>>
  /\ UNCHANGED <<writers, accounts, now, did, follows_dids, cursor, pages, det_vars, client_vars, run_vars>>

\* lines 427-430: mark_account_crawled(did, 'completed')
MarkCompleted ==
  /\ pc = "mark_completed"
  /\ \E ok \in BOOLEAN :
       /\ pc' = AfterCall(ok, "done")
       /\ accounts' = IF ok THEN MarkAccountCrawled(did, "completed") ELSE accounts
       /\ visit' = [visit EXCEPT !.issued = @ \cup {"completed"},
                                 !.marked = IF ok THEN @ \cup {"completed"} ELSE @,
                                 !.raised = ~ok]
  /\ UNCHANGED <<writers, follows, now, did, follows_dids, cursor, pages, stats,
                 last_recon, det_vars, client_vars, run_vars>>

\* the except branch with a failing error mark raising out of _process_account
AfterErrorMark_Propagates(ok) == IF ok THEN "done" ELSE "raised"

\* lines 436-441: `try: mark error ... except: pass`, the visit returns either way
AfterErrorMark(ok) == "done"

\* lines 432-441: the except branch; a failing error mark is passed over
MarkError ==
  /\ pc = "mark_error"
  /\ \E ok \in BOOLEAN :
       /\ accounts' = IF ok THEN MarkAccountCrawled(did, "error") ELSE accounts
       /\ visit' = [visit EXCEPT !.issued = @ \cup {"error"},
                                 !.marked = IF ok THEN @ \cup {"error"} ELSE @]
       /\ pc' = AfterErrorMark(ok)
  /\ UNCHANGED <<writers, follows, now, did, follows_dids, cursor, pages, stats,
                 last_recon, det_vars, client_vars, run_vars>>

\* _process_account returns to the loop of start() (line 290); its locals end
Return ==
  /\ pc = "done"
  /\ EndVisit
  /\ UNCHANGED <<writers, store_vars, last_recon, det_vars, client_vars, run_vars>>

\* the same call as the store sees it, from any db-queue worker process: some
\* subject, some collected list; the counts go back to that worker
WorkerReconcile ==
  /\ \E s \in Subjects, F \in SUBSET Targets : CallProcessAccountFollows(s, F)
  /\ UNCHANGED <<writers, accounts, now, visit_vars, det_vars, client_vars, run_vars>>

\* ===================================================== the run of the worker
\* NetworkTraversal.start(seed_handles, max_accounts, min_interval_days) and the
\* queue procedures it calls

\* the last crawl of the row is older than the interval (or there was none)
Stale(row, t, interval) == row.last_crawled = NoTime \/ t - row.last_crawled >= interval

\* get_accounts_to_crawl: the accounts that are due
Due(acc, t, interval) ==
  {d \in DOMAIN acc : /\ acc[d].known
                      /\ acc[d].crawl_status = "pending" \/ acc[d].last_crawled = NoTime
                      /\ Stale(acc[d], t, interval)}

\* a goes before b in the queue: higher priority, then the older crawl
Before(acc, a, b) ==
  \/ acc[a].crawl_priority > acc[b].crawl_priority
  \/ /\ acc[a].crawl_priority = acc[b].crawl_priority
     /\ acc[a].last_crawled < acc[b].last_crawled

\* get_accounts_to_crawl(limit_count, min_interval): the possible results, the
\* first `limit` due accounts in queue order (equal accounts in any order)
SelectDue(acc, t, limit, interval) ==
  LET D == Due(acc, t, interval)
      n == IF Cardinality(D) < limit THEN Cardinality(D) ELSE limit
  IN {q \in [1..n -> D] :
        /\ \A i, j \in 1..n : i < j => q[i] # q[j] /\ ~Before(acc, q[j], q[i])
        /\ \A d \in D \ Range(q) : \A i \in 1..n : ~Before(acc, d, q[i])}

\* get_recommended_accounts(limit_count, max_priority): under-crawled accounts
Recommendable(acc) ==
  {d \in DOMAIN acc : acc[d].known /\ acc[d].crawl_priority <= max_priority}

\* lines 343-346: update {crawl_priority: 100, crawl_status: pending} .eq(did)
SeedUpdate(acc, d) ==
  [acc EXCEPT ![d].crawl_priority = SeedPriority, ![d].crawl_status = "pending"]

\* lines 365-369: update {crawl_status: pending, crawl_priority: 70} for each
RecommendUpdate(acc, R) ==
  [d \in DOMAIN acc |-> IF d \in R
                        THEN [acc[d] EXCEPT !.crawl_status = "pending",
                                            !.crawl_priority = RecommendedPriority]
                        ELSE acc[d]]

\* line 269: batch_size = min(10, max_accounts)
batch_size == IF max_accounts < BatchCap THEN max_accounts ELSE BatchCap

\* the loop over the batch taking the last account first
NextAccount_Last(b) == b[Len(b)]

\* line 287: `for account in accounts`
NextAccount(b) == Head(b)

\* how the visit that returns ended
Outcome ==
  IF visit.marked # {} THEN CHOOSE o \in visit.marked : TRUE ELSE "unmarked"

\* start() is called (line 258) with seeds of SS and max_accounts of MM; the
\* seeds go to _add_seed_accounts first
RunStartWith(SS, MM) ==
  /\ run_pc = "stopped"
  /\ pc = "idle"
  /\ \E S \in SS, m \in MM :
       /\ seed_handles' = SetToSeq(S)
       /\ max_accounts' = m
       /\ run_pc' = IF S # {} THEN "seed" ELSE "loop"
  /\ batch' = <<>>
  /\ total_processed' = 0
  /\ run_hist' = NoRun
  /\ UNCHANGED <<writers, store_vars, visit_vars, last_recon, det_vars, client_vars, other_did>>

RunStart == RunStartWith(SUBSET SeedDids, 1..MaxAccountsCap)

\* start(max_accounts = 1) without seeds
RunStartPlain == RunStartWith({{}}, {1})

\* _add_seed_accounts, one iteration of `for handle in handles` (lines 324-351):
\* the profile resolves and the row is written, or it does not, or a store
\* call raises into the `except` of the iteration
AddSeedAccount ==
  /\ run_pc = "seed"
  /\ seed_handles # <<>>
  /\ \E outcome \in {"stored", "unresolved", "raised"} :
       /\ accounts' = IF outcome = "stored"
                      THEN SeedUpdate(StoreUsers(accounts, {Head(seed_handles)}),
                                      Head(seed_handles))
                      ELSE accounts
       /\ run_hist' = IF outcome = "stored"
                      THEN [run_hist EXCEPT !.seeded = @ \cup {Head(seed_handles)}]
                      ELSE run_hist
  /\ seed_handles' = Tail(seed_handles)
  /\ run_pc' = IF Tail(seed_handles) = <<>> THEN "loop" ELSE "seed"
  /\ UNCHANGED <<writers, follows, now, visit_vars, last_recon, det_vars, client_vars, other_did,
                 max_accounts, batch, total_processed>>

\* lines 272-276: the loop condition holds and _get_next_accounts answers; a
\* raising rpc is answered with []
GetNextAccounts ==
  /\ run_pc = "loop"
  /\ total_processed < max_accounts
  /\ \E ok \in BOOLEAN, q \in SelectDue(accounts, now, batch_size, MinInterval) :
       /\ batch' = IF ok THEN q ELSE <<>>
       /\ run_pc' = IF ok /\ q # <<>> THEN "next" ELSE "recommend"
  /\ run_hist' = [run_hist EXCEPT !.recommend = NoRecommend]
  /\ UNCHANGED <<writers, store_vars, visit_vars, last_recon, det_vars, client_vars, other_did,
                 seed_handles, max_accounts, total_processed>>

\* line 272: the loop condition fails
LoopExit ==
  /\ run_pc = "loop"
  /\ total_processed >= max_accounts
  /\ run_pc' = "finally"
  /\ UNCHANGED <<writers, store_vars, visit_vars, last_recon, det_vars, client_vars, other_did,
                 seed_handles, max_accounts, batch, total_processed, run_hist>>

\* the loop going on whatever _add_recommended_accounts answered
AfterRecommend_GoesOn(added) == "loop"

\* lines 279-284: `if added: continue`, `else: ... break`
AfterRecommend(added) == IF added THEN "loop" ELSE "finally"

\* lines 279-284 and _add_recommended_accounts (lines 353-376).  R: the
\* accounts get_recommended_accounts answered with; U: the ones updated, all
\* of R unless a store call raised (ok: none did)
AddRecommendedAccounts ==
  /\ run_pc = "recommend"
  /\ \E ok \in BOOLEAN, R \in SUBSET Recommendable(accounts) :
       \E U \in SUBSET R :
         /\ ok => U = R
         /\ ~ok => U # R \/ R = {}
         /\ accounts' = RecommendUpdate(accounts, U)
         /\ run_pc' = AfterRecommend(ok /\ R # {})
         /\ run_hist' = [run_hist EXCEPT !.recommend = [called |-> TRUE, ok |-> ok, R |-> R]]
  /\ UNCHANGED <<writers, follows, now, visit_vars, last_recon, det_vars, client_vars, other_did,
                 seed_handles, max_accounts, batch, total_processed>>

\* lines 287-289: the next account of the batch goes to _process_account
StartVisit ==
  /\ run_pc = "next"
  /\ batch # <<>>
  /\ pc = "idle"
  /\ BeginVisit(NextAccount(batch))
  /\ batch' = SelectSeq(batch, LAMBDA d : d # NextAccount(batch))
  /\ run_pc' = "visit"
  /\ run_hist' =
       [run_hist EXCEPT
          !.visited = @ \cup {NextAccount(batch)},
          !.started = @ + 1,
          !.nonseed_first = @ \/ /\ NextAccount(batch) \notin run_hist.seeded
                                 /\ run_hist.seeded \ run_hist.visited # {}]
  /\ UNCHANGED <<writers, store_vars, last_recon, det_vars, client_vars, other_did,
                 seed_handles, max_accounts, total_processed>>

\* lines 289-291: _process_account returns; count += 1, total_processed += 1
FinishVisit ==
  /\ run_pc = "visit"
  /\ pc = "done"
  /\ EndVisit
  /\ total_processed' = total_processed + 1
  /\ run_pc' = "sleep"
  /\ run_hist' = [run_hist EXCEPT !.finished = @ + 1, !.last_outcome = Outcome,
                                  !.owed = @ \/ (total_processed + 1) % PriorityPeriod = 0]
  /\ UNCHANGED <<writers, store_vars, last_recon, det_vars, client_vars, other_did,
                 seed_handles, max_accounts, batch>>

\* lines 287-302: after the delay the next account of the batch; after the
\* last one `if total_processed % 50 == 0` decides about the recomputation
AfterSleep(b, total) ==
  IF b # <<>> THEN "next"
  ELSE IF total % PriorityPeriod = 0 THEN "update_priorities" ELSE "loop"

\* lines 294-302: the delay, then the next account of the batch or the end of
\* the batch
Sleep ==
  /\ run_pc = "sleep"
  /\ run_pc' = AfterSleep(batch, total_processed)
  /\ UNCHANGED <<writers, store_vars, visit_vars, last_recon, det_vars, client_vars, other_did,
                 seed_handles, max_accounts, batch, total_processed, run_hist>>

\* update_crawl_priorities: the priorities of the rows after the procedure
\* recalculated them
RecomputePriorities(acc, f) ==
  [d \in DOMAIN acc |-> [acc[d] EXCEPT !.crawl_priority = f[d]]]

\* lines 301-302 and _update_account_priorities (lines 378-384); a raising rpc
\* is logged
UpdateAccountPriorities ==
  /\ run_pc = "update_priorities"
  /\ \E ok \in BOOLEAN, f \in [DOMAIN accounts -> PriorityValues] :
       accounts' = IF ok THEN RecomputePriorities(accounts, f) ELSE accounts
  /\ run_pc' = IF batch # <<>> THEN "next" ELSE "loop"
  /\ run_hist' = [run_hist EXCEPT !.owed = FALSE]
  /\ UNCHANGED <<writers, follows, now, visit_vars, last_recon, det_vars, client_vars, other_did,
                 seed_handles, max_accounts, batch, total_processed>>

\* a batch of n accounts whose rows are not among the rows followed
BatchOf(n) == [i \in 1..n |-> Cardinality(QueueDids) + i]

\* lines 272-276 with a queue that answers with any number of accounts up to
\* the limit, and never with none
PullBatch ==
  /\ run_pc = "loop"
  /\ total_processed < max_accounts
  /\ \E n \in 1..batch_size : batch' = BatchOf(n)
  /\ run_pc' = "next"
  /\ UNCHANGED <<writers, store_vars, visit_vars, last_recon, det_vars, client_vars, other_did,
                 seed_handles, max_accounts, total_processed, run_hist>>

\* lines 287-291 with _process_account as one step, for an account whose rows
\* are not followed: count += 1, total_processed += 1
ProcessAccountOfBatch ==
  /\ run_pc = "next"
  /\ batch # <<>>
  /\ pc = "idle"
  /\ batch' = SelectSeq(batch, LAMBDA d : d # NextAccount(batch))
  /\ total_processed' = total_processed + 1
  /\ run_pc' = "sleep"
  /\ run_hist' =
       [run_hist EXCEPT
          !.visited = @ \cup {NextAccount(batch)},
          !.started = @ + 1,
          !.finished = @ + 1,
          !.owed = @ \/ (total_processed + 1) % PriorityPeriod = 0]
  /\ UNCHANGED <<writers, store_vars, visit_vars, last_recon, det_vars, client_vars, other_did,
                 seed_handles, max_accounts>>

\* start(max_accounts = MaxAccountsLong) without seeds
RunStartLong == RunStartWith({{}}, {MaxAccountsLong})

\* the visit is suspended in an await (a request of the client)
Awaiting == pc \in {"get_profile", "collect_follows", "collect_followers"}

\* main() runs start() under asyncio.run with no signal handler: the shutdown
\* signal cancels the task, which raises at its current await.  In
\* _add_seed_accounts that is before the `try` of start(); in the loop it is
\* inside, whether in a visit (left where it stands) or in the delay
Interrupt ==
  /\ \/ /\ run_pc = "seed"
        /\ run_pc' = "raised"
        /\ run_hist' = [run_hist EXCEPT !.shutdown = TRUE]
        /\ UNCHANGED visit_vars
     \/ /\ run_pc = "visit"
        /\ Awaiting
        /\ EndVisit
        /\ run_pc' = "finally"
        /\ run_hist' = [run_hist EXCEPT !.shutdown = TRUE, !.abandoned = TRUE]
     \/ /\ run_pc = "sleep"
        /\ run_pc' = "finally"
        /\ run_hist' = [run_hist EXCEPT !.shutdown = TRUE]
        /\ UNCHANGED visit_vars
  /\ UNCHANGED <<writers, store_vars, last_recon, det_vars, client_vars, other_did,
                 seed_handles, max_accounts, batch, total_processed>>

\* lines 304-306: api_client.close() and the report of total_processed
Finally ==
  /\ run_pc = "finally"
  /\ run_pc' = "ended"
  /\ run_hist' = [run_hist EXCEPT !.closed = TRUE, !.reported = total_processed]
  /\ UNCHANGED <<writers, store_vars, visit_vars, last_recon, det_vars, client_vars, other_did,
                 seed_handles, max_accounts, batch, total_processed>>

\* another worker process calls get_accounts_to_crawl (lines 274, 311-316) and
\* enters _process_account with the account it got
OtherSelect ==
  /\ other_did = NoDid
  /\ \E q \in SelectDue(accounts, now, 1, MinInterval) :
       /\ q # <<>>
       /\ other_did' = q[1]
  /\ UNCHANGED <<writers, store_vars, visit_vars, last_recon, det_vars, client_vars,
                 run_pc, seed_handles, max_accounts, batch, total_processed, run_hist>>

\* the other process marks its account (lines 396-400, 427-430, 436-441), or
\* fails to, and leaves _process_account
OtherMark ==
  /\ other_did # NoDid
  /\ \E ok \in BOOLEAN, status \in {"completed", "failed", "error"} :
       accounts' = IF ok THEN MarkAccountCrawled(other_did, status) ELSE accounts
  /\ other_did' = NoDid
  /\ UNCHANGED <<writers, follows, now, visit_vars, last_recon, det_vars, client_vars,
                 run_pc, seed_handles, max_accounts, batch, total_processed, run_hist>>

\* ========================================================= unfollow detector
\* UnfollowDetector._process_account_unfollows(did), one step per await or call

\* history of a pass: whether a page request of get_all_follows failed, and
\* the rows the pass marked
NoPass == [page_failed |-> FALSE, applied |-> {}]

\* lines 138-144: the active rows of the subject, as {following_did: id}
DetectorSelect(d) ==
  /\ det_pc = "idle"
  /\ \E m \in [ActiveSet(d) -> {r.id : r \in RowsOf(d)}] :
       /\ \A g \in ActiveSet(d) :
            \E r \in RowsOfPair(d, g) : r.follow_status = "active" /\ r.id = m[g]
       /\ db_follows' = m
  /\ det_pc' = "fetch"
  /\ det_did' = d
  /\ current_follows' = {}
  /\ det_pages' = 0
  /\ det_todo' = {}
  /\ det_hist' = NoPass
  /\ UNCHANGED <<writers, store_vars, visit_vars, last_recon, client_vars, run_vars>>

\* line 152: unfollowed_dids = set(db_follows.keys()) - current_follows
UnfollowedDids(db, current) == (DOMAIN db) \ current

\* get_all_follows, one iteration of `while True` (lines 58-88); leaving the
\* loop returns the set to line 148 and the difference of line 152 is taken.
\* From there on only db_follows[u] for the unfollowed u is read, so the rest
\* of the two collections is dropped.
DetectorFetchPage ==
  /\ det_pc = "fetch"
  /\ \E ok \in BOOLEAN, P \in PagesOver(Targets), more \in BOOLEAN :
       /\ ~ok => (P = {} /\ ~more)
       /\ more => det_pages + 1 < MaxPages
       /\ det_pages' = IF more THEN det_pages + 1 ELSE 0
       /\ det_hist' = [det_hist EXCEPT !.page_failed = @ \/ ~ok]
       /\ det_pc' = IF more THEN "fetch" ELSE "mark"
       /\ LET todo == UnfollowedDids(db_follows, current_follows \cup P)
          IN /\ det_todo' = IF more THEN {} ELSE todo
             /\ current_follows' = IF more THEN current_follows \cup P ELSE {}
             /\ db_follows' = IF more THEN db_follows
                              ELSE [u \in todo |-> db_follows[u]]
  /\ UNCHANGED <<writers, store_vars, visit_vars, last_recon, det_did, client_vars, run_vars>>

\* lines 162-168: update({follow_status: unfollowed, unfollowed_at: now}).eq(id)
MarkUnfollowed(id, t) ==
  {IF r.id = id THEN Retire(r, t) ELSE r : r \in follows}

\* lines 158-170, one iteration of the for loop; a raising update ends the
\* loop in the `except` of line 174
DetectorMark ==
  /\ det_pc = "mark"
  /\ \E u \in det_todo, ok \in BOOLEAN :
       /\ follows' = IF ok THEN MarkUnfollowed(db_follows[u], now) ELSE follows
       /\ det_todo' = IF ok THEN det_todo \ {u} ELSE {}
       /\ last_recon' = IF follows' = follows THEN last_recon ELSE NoRecon
       /\ det_hist' = IF ok THEN [det_hist EXCEPT !.applied = @ \cup {db_follows[u]}]
                      ELSE det_hist
  /\ UNCHANGED <<writers, accounts, now, visit_vars, det_pc, det_did, db_follows,
                 current_follows, det_pages, client_vars, run_vars>>

\* _process_account_unfollows returns to the loop of detect_unfollows (line 125)
DetectorReturn ==
  /\ det_pc = "mark"
  /\ det_todo = {}
  /\ det_pc' = "idle"
  /\ det_did' = NoDid
  /\ db_follows' = <<>>
  /\ current_follows' = {}
  /\ det_pages' = 0
  /\ det_hist' = NoPass
  /\ UNCHANGED <<writers, store_vars, visit_vars, last_recon, det_todo, client_vars, run_vars>>

\* ================================================= in-memory-queue crawler
\* NetworkTraversal._store_follow(follower_did, following_did) of
\* workers/network_traversal.py

\* the update of a re-observed pair flipping a retired edge back to active
StoreFollowUpdate_Reactivates(r, t) ==
  [r EXCEPT !.last_verified_at = t, !.follow_status = "active", !.unfollowed_at = NoTime]

\* lines 428-433: update({last_verified_at: now}).eq('id', follow_id)
StoreFollowUpdate(r, t) == [r EXCEPT !.last_verified_at = t]

\* lines 410-433: the existence check on the pair, then an insert when it found
\* nothing, else a refresh of the first row found; an error is logged and
\* swallowed.  The check and the write are taken together: no other writer
\* runs between them.
StoreFollow(f, g) ==
  /\ \E ok \in BOOLEAN :
       IF RowsOfPair(f, g) = {}
       THEN /\ ok => Cardinality(follows) < MaxRows
            /\ follows' = IF ok THEN follows \cup {NewRow(NextId(f, g), f, g, now)}
                          ELSE follows
       ELSE \E id \in {r.id : r \in RowsOfPair(f, g)} :
              follows' = IF ok THEN {IF r.id = id THEN StoreFollowUpdate(r, now) ELSE r
                                     : r \in follows}
                         ELSE follows
  /\ last_recon' = IF follows' = follows THEN last_recon ELSE NoRecon
  /\ UNCHANGED <<writers, accounts, now, visit_vars, det_vars, client_vars, run_vars>>

\* the workers that run an edge writer, each in its own process
Writers == {1, 2}

\* a worker outside the edge writers
NoWrite == [pc |-> "idle", follower_did |-> NoDid, following_did |-> NoDid, data |-> {}]

\* the select of the rows of the pair has returned to worker w
Checked(w, p, f, g) ==
  [writers EXCEPT ![w] = [pc |-> p, follower_did |-> f, following_did |-> g,
                          data |-> {r.id : r \in RowsOfPair(f, g)}]]

\* lines 410-415: select('id').eq(follower_did).eq(following_did).execute();
\* an error is logged and swallowed
StoreFollowCheck(w, f, g) ==
  /\ writers[w].pc = "idle"
  /\ \E ok \in BOOLEAN :
       writers' = IF ok THEN Checked(w, "store_follow", f, g) ELSE writers
  /\ UNCHANGED <<store_vars, visit_vars, last_recon, det_vars, client_vars, run_vars>>

\* lines 419-433: the insert when the check found nothing, else the update of
\* the first row found; an error is logged and swallowed
StoreFollowWrite(w) ==
  /\ writers[w].pc = "store_follow"
  /\ LET f == writers[w].follower_did
         g == writers[w].following_did
     IN \E ok \in BOOLEAN :
          IF writers[w].data = {}
          THEN /\ ok => Cardinality(follows) < MaxRows
               /\ follows' = IF ok THEN follows \cup {NewRow(NextId(f, g), f, g, now)}
                             ELSE follows
          ELSE \E id \in writers[w].data :
                 follows' = IF ok THEN {IF r.id = id THEN StoreFollowUpdate(r, now) ELSE r
                                        : r \in follows}
                            ELSE follows
  /\ writers' = [writers EXCEPT ![w] = NoWrite]
  /\ last_recon' = IF follows' = follows THEN last_recon ELSE NoRecon
  /\ UNCHANGED <<accounts, now, visit_vars, det_vars, client_vars, run_vars>>

\* artifish/db/db_service.py lines 91-97: the select of the rows of the pair;
\* the method returns the first row when there is one, and an error propagates
AddFollowCheck(w, f, g) ==
  /\ writers[w].pc = "idle"
  /\ \E ok \in BOOLEAN :
       writers' = IF ok /\ RowsOfPair(f, g) = {}
                  THEN Checked(w, "add_follow_relationship", f, g)
                  ELSE writers
  /\ UNCHANGED <<store_vars, visit_vars, last_recon, det_vars, client_vars, run_vars>>

\* artifish/db/db_service.py lines 99-111: insert({follower_did, following_did})
AddFollowInsert(w) ==
  /\ writers[w].pc = "add_follow_relationship"
  /\ LET f == writers[w].follower_did
         g == writers[w].following_did
     IN \E ok \in BOOLEAN :
          /\ ok => Cardinality(follows) < MaxRows
          /\ follows' = IF ok THEN follows \cup {NewRow(NextId(f, g), f, g, now)}
                        ELSE follows
  /\ writers' = [writers EXCEPT ![w] = NoWrite]
  /\ last_recon' = IF follows' = follows THEN last_recon ELSE NoRecon
  /\ UNCHANGED <<accounts, now, visit_vars, det_vars, client_vars, run_vars>>

\* ============================================================ API client
\* BlueskyAPIClient of workers/network_traversal_db_queue.py

\* one rate-limit header of a response
AbsentHeader == [kind |-> "absent", value |-> 0]
MalformedHeader == [kind |-> "malformed", value |-> 0]
IntHeader(n) == [kind |-> "int", value |-> n]
RemainingHeaders == {AbsentHeader, MalformedHeader} \cup {IntHeader(n) : n \in RemainingValues}
ResetHeaders == {AbsentHeader, MalformedHeader} \cup {IntHeader(n) : n \in ResetValues}
\* response.headers: `limit` is "ratelimit-limit" in response.headers
Headers == [limit : BOOLEAN, remaining : RemainingHeaders, reset : ResetHeaders]

\* int(response.headers.get(key, default)), where it does not raise
IntOf(h, default) == IF h.kind = "absent" THEN default ELSE h.value

\* lines 237-246: _update_rate_limit, as the budget it leaves behind
UpdateRateLimit(h, t, budget) ==
  IF ~h.limit THEN budget
  ELSE IF h.remaining.kind = "malformed" \/ h.reset.kind = "malformed"
       THEN [remaining |-> FallbackRemaining, reset |-> t + FallbackCooldown]
       ELSE [remaining |-> IntOf(h.remaining, DefaultRemaining),
             reset |-> t + IntOf(h.reset, DefaultReset)]

Budget == [remaining |-> rate_limit_remaining, reset |-> rate_limit_reset]

SetBudget(b) ==
  /\ rate_limit_remaining' = b.remaining
  /\ rate_limit_reset' = b.reset

\* the expiry test without the safety buffer
is_token_expired_NoBuffer ==
  \/ ~auth_token
  \/ token_created_at = NoTime
  \/ time >= token_created_at + token_expires_in

\* lines 71-81: is_token_expired
is_token_expired ==
  \/ ~auth_token
  \/ token_created_at = NoTime
  \/ time >= token_created_at + token_expires_in - buffer_time

\* lines 232-235: how long _check_rate_limit sleeps, 0 when it does not
SleepTime(remaining, reset, t) ==
  IF remaining < LowWaterMark /\ reset - t > 0 THEN (reset - t) + SleepBuffer ELSE 0

\* ---- history: what the responses advertised, and the last request sent
\* barrier: the reset time T of the last 200 response that advertised a budget
\*          below the low-water mark, 0 when the last one advertised enough
\* cooldown: response time + 60 of the last 200 response whose rate-limit
\*          headers were missing or malformed, 0 when they were complete
\* last:    the kind of headers of the last 200 response
\* sent: the last request sent, whether it left before the barrier or the
\*          cooldown in force, the kind of headers received before it, and
\*          whether it carried a token with less than buffer_time to live
\* auth_failed: whether a createSession request of this client ever failed
NoRequest ==
  [before_barrier |-> FALSE, before_cooldown |-> FALSE, after |-> "none",
   token_low |-> FALSE]
\* expected: the budget as the headers of the last response, of any status,
\*          set it
\* refresh:  of the request being prepared: whether the token was looked at,
\*          its age then (NoTime: no token held), and whether _authenticate
\*          was called since
\* returned: of the call that is returning: the method, the status of its
\*          last response, whether the identity lookup was answered with
\*          status 200, the status of the detail lookup, and the value handed
\*          to the caller
NoRefresh == [checked |-> FALSE, done |-> FALSE, age |-> NoTime]
NoReturn ==
  [method |-> "none", status |-> "none", identity_ok |-> FALSE, details |-> "none",
   value |-> "none"]
NoHist ==
  [barrier |-> 0, cooldown |-> 0, last |-> "none", sent |-> NoRequest,
   expected |-> [remaining |-> DefaultRemaining, reset |-> 0],
   refresh |-> NoRefresh, returned |-> NoReturn, auth_failed |-> FALSE]

\* the token as the client finds it when it decides about a refresh
TokenLookedAt ==
  IF cl_hist.refresh.checked THEN cl_hist.refresh
  ELSE [checked |-> TRUE, done |-> FALSE,
        age |-> IF auth_token THEN time - token_created_at ELSE NoTime]

Advertised(h) == h.remaining.kind = "int" /\ h.reset.kind = "int"
Complete(h) == h.limit /\ Advertised(h)
HeaderCase(h) ==
  IF Complete(h) THEN (IF h.remaining.value < LowWaterMark THEN "low" ELSE "enough")
  ELSE IF ~h.limit \/ h.remaining.kind = "absent" \/ h.reset.kind = "absent"
       THEN (IF h.remaining.kind = "malformed" \/ h.reset.kind = "malformed"
             THEN "malformed" ELSE "missing")
       ELSE "malformed"

Received(h) ==
  [cl_hist EXCEPT
     !.barrier = IF Complete(h)
                 THEN (IF h.remaining.value < LowWaterMark THEN time + h.reset.value ELSE 0)
                 ELSE @,
     !.cooldown = IF Complete(h) THEN 0 ELSE time + FallbackCooldown,
     !.last = HeaderCase(h)]

\* the history after a response of the given status with headers h
Responded(status, h) ==
  [(IF status = "ok" THEN Received(h) ELSE cl_hist)
     EXCEPT !.expected = UpdateRateLimit(h, time, Budget)]

Sent ==
  [cl_hist EXCEPT !.sent = [before_barrier |-> time < cl_hist.barrier,
                            before_cooldown |-> time < cl_hist.cooldown,
                            after |-> cl_hist.last,
                            token_low |-> /\ auth_token
                                          /\ token_created_at + token_expires_in - time
                                               < buffer_time]]

\* a caller invokes get_profile, get_follows or get_followers
Call(m) ==
  /\ cl_pc = "idle"
  /\ cl_pc' = "initialize"
  /\ cl_method' = m
  /\ cl_hist' = [cl_hist EXCEPT !.refresh = NoRefresh]
  /\ UNCHANGED <<writers, store_vars, visit_vars, last_recon, det_vars, run_vars, token_vars,
                 budget_vars, time, cl_ret, cl_outer>>

\* lines 55-62: initialize
Initialize ==
  /\ cl_pc = "initialize"
  /\ IF credentials /\ ~auth_token
     THEN /\ cl_pc' = "auth_send"
          /\ cl_ret' = "check"
          /\ cl_hist' = [cl_hist EXCEPT !.refresh = TokenLookedAt]
     ELSE /\ cl_pc' = "check"
          /\ UNCHANGED <<cl_ret, cl_hist>>
  /\ UNCHANGED <<writers, store_vars, visit_vars, last_recon, det_vars, run_vars, token_vars,
                 budget_vars, time, cl_method, cl_outer>>

\* line 205: _authenticate posts createSession
AuthSend ==
  /\ cl_pc = "auth_send"
  /\ cl_pc' = "auth_recv"
  /\ cl_hist' = [Sent EXCEPT !.refresh.done = TRUE, !.sent.token_low = FALSE]
  /\ UNCHANGED <<writers, store_vars, visit_vars, last_recon, det_vars, run_vars, token_vars,
                 budget_vars, time, cl_method, cl_ret, cl_outer>>

\* lines 206-221: the createSession response, or the exception
AuthReceive ==
  /\ cl_pc = "auth_recv"
  /\ \E ok \in BOOLEAN :
       /\ IF ok
          THEN /\ auth_token' = TRUE
               /\ token_created_at' = time
               /\ token_expires_in' = TokenLifetime
          ELSE UNCHANGED <<auth_token, token_created_at, token_expires_in>>
       /\ cl_hist' = [cl_hist EXCEPT !.auth_failed = @ \/ ~ok]
  /\ cl_pc' = cl_ret
  /\ UNCHANGED <<writers, store_vars, visit_vars, last_recon, det_vars, run_vars, credentials,
                 budget_vars, time, cl_method, cl_ret, cl_outer>>

\* lines 225-228: _check_rate_limit, the token refresh
CheckToken ==
  /\ cl_pc = "check"
  /\ IF credentials /\ is_token_expired
     THEN cl_pc' = "auth_send" /\ cl_ret' = "limit"
     ELSE cl_pc' = "limit" /\ cl_ret' = cl_ret
  /\ cl_hist' = [cl_hist EXCEPT !.refresh = TokenLookedAt]
  /\ UNCHANGED <<writers, store_vars, visit_vars, last_recon, det_vars, run_vars, token_vars,
                 budget_vars, time, cl_method, cl_outer>>

\* lines 230-235: _check_rate_limit, the wait, the clock staying below cap
CheckLimitUpTo(cap) ==
  /\ cl_pc = "limit"
  /\ \/ SleepTime(rate_limit_remaining, rate_limit_reset, time) = 0
     \/ time + SleepTime(rate_limit_remaining, rate_limit_reset, time) <= cap
  /\ time' = time + SleepTime(rate_limit_remaining, rate_limit_reset, time)
  /\ cl_pc' = "send"
  /\ UNCHANGED <<writers, store_vars, visit_vars, last_recon, det_vars, run_vars, token_vars,
                 budget_vars, cl_method, cl_ret, cl_outer, cl_hist>>

CheckLimit == CheckLimitUpTo(MaxClock)

\* the same over the lifetime of a token
CheckLimitLong == CheckLimitUpTo(MaxTokenClock)

\* lines 99, 132, 159, 186: session.get
Send ==
  /\ cl_pc = "send"
  /\ cl_pc' = "recv"
  /\ cl_hist' = Sent
  /\ UNCHANGED <<writers, store_vars, visit_vars, last_recon, det_vars, run_vars, token_vars,
                 budget_vars, time, cl_method, cl_ret, cl_outer>>

\* the budget after the response of get_follows, get_followers or the
\* did-less get_profile: updated on status 200 only (lines 107, 135, 161, 188)
AfterResponse(ok, h, t, budget) == IF ok THEN UpdateRateLimit(h, t, budget) ELSE budget

\* the headers of a response that carries no rate-limit information
NoHeaders == [limit |-> FALSE, remaining |-> AbsentHeader, reset |-> AbsentHeader]

\* get_profile without the identity result when the detail lookup fails
ReturnValue_DetailsRequired(m, ok) ==
  IF m \in {"get_follows", "get_followers"} THEN (IF ok THEN "page" ELSE "empty")
  ELSE IF ok THEN (IF m = "details" THEN "identity+details" ELSE "identity")
  ELSE "none"

\* what the method hands to its caller after the last response (ok: status
\* 200): the page or {"follows": []} / {"followers": []} (lines 161-168,
\* 188-195); of get_profile the describeRepo result, updated with the details
\* when _get_profile_details returned some, or None (lines 100-114)
ReturnValue(m, ok) ==
  IF m \in {"get_follows", "get_followers"} THEN (IF ok THEN "page" ELSE "empty")
  ELSE IF m = "details" THEN (IF ok THEN "identity+details" ELSE "identity")
  ELSE IF ok THEN "identity" ELSE "none"

\* the history of the call that returns after a response of the given status
Returning(status) ==
  [method |-> IF cl_method = "details" THEN "get_profile" ELSE cl_method,
   status |-> status,
   identity_ok |-> cl_method = "details" \/ (cl_method = "get_profile" /\ status = "ok"),
   details |-> IF cl_method = "details" THEN status ELSE "none",
   value |-> ReturnValue(cl_method, status = "ok")]

\* lines 99-114, 132-141, 159-168, 186-195: the response, or the exception,
\* the server sending headers of HS
ReceiveFrom(HS) ==
  /\ cl_pc = "recv"
  /\ \E status \in {"ok", "error", "exception"}, h \in HS, has_did \in BOOLEAN :
       /\ status = "exception" => h = NoHeaders
       /\ has_did => status = "ok" /\ cl_method = "get_profile"
       /\ cl_hist' = [(IF status = "exception" THEN cl_hist ELSE Responded(status, h))
                       EXCEPT !.refresh = NoRefresh,
                              !.returned = IF cl_method = "get_profile" /\ has_did
                                           THEN @ ELSE Returning(status)]
       /\ IF cl_method = "get_profile" /\ has_did
          THEN \* line 103: _get_profile_details before _update_rate_limit
               /\ cl_outer' = <<h>>
               /\ cl_method' = "details"
               /\ cl_pc' = "check"
               /\ UNCHANGED budget_vars
          ELSE /\ SetBudget(IF cl_method = "details"
                            THEN UpdateRateLimit(cl_outer[1], time,
                                                 AfterResponse(status = "ok", h, time, Budget))
                            ELSE AfterResponse(status = "ok", h, time, Budget))
               /\ cl_outer' = <<>>
               /\ cl_method' = "none"
               /\ cl_pc' = "return"
  /\ UNCHANGED <<writers, store_vars, visit_vars, last_recon, det_vars, run_vars, token_vars, time,
                 cl_ret>>

\* lines 108, 114, 139, 141, 166, 168, 193, 195: the method returns
ReturnToCaller ==
  /\ cl_pc = "return"
  /\ cl_pc' = "idle"
  /\ cl_hist' = [cl_hist EXCEPT !.returned = NoReturn]
  /\ UNCHANGED <<writers, store_vars, visit_vars, last_recon, det_vars, run_vars, token_vars,
                 budget_vars, time, cl_method, cl_ret, cl_outer>>

Receive == ReceiveFrom(Headers)

\* the same from a server that sends no rate-limit headers
ReceivePlain == ReceiveFrom({NoHeaders})

\* the headers of a response that advertises a budget below the low-water mark
LowHeaders == [limit |-> TRUE, remaining |-> IntHeader(5), reset |-> IntHeader(30)]

\* the same from a server that sends no rate-limit headers or a low budget
ReceiveLow == ReceiveFrom({NoHeaders, LowHeaders})

\* lines 43-54: __init__, with or without username and password
Construct(c) ==
  /\ cl_pc = "new"
  /\ cl_pc' = "idle"
  /\ credentials' = c
  /\ UNCHANGED <<writers, store_vars, visit_vars, last_recon, det_vars, run_vars, auth_token,
                 token_created_at, token_expires_in, budget_vars, time, cl_method,
                 cl_ret, cl_outer, cl_hist>>

\* time.time() moves on
ClientTick ==
  /\ \E dt \in ClockSteps :
       /\ time + dt <= MaxClock
       /\ time' = time + dt
  /\ UNCHANGED <<writers, store_vars, visit_vars, last_recon, det_vars, run_vars, token_vars,
                 budget_vars, cl_pc, cl_method, cl_ret, cl_outer, cl_hist>>

\* time.time() moves on by a step of D
TokenTickOf(D) ==
  /\ \E dt \in D :
       /\ time + dt <= MaxTokenClock
       /\ time' = time + dt
  /\ UNCHANGED <<writers, store_vars, visit_vars, last_recon, det_vars, run_vars, token_vars,
                 budget_vars, cl_pc, cl_method, cl_ret, cl_outer, cl_hist>>

\* time.time() moves on, in steps of the size of a token's lifetime
TokenTick == TokenTickOf(TokenClockSteps)

\* ================================================================= the clock
Tick ==
  /\ now < MaxTime
  /\ now' = now + 1
  /\ UNCHANGED <<writers, follows, accounts, visit_vars, last_recon, det_vars, client_vars, run_vars>>

\* ====================================================================== Init
InitOther ==
  /\ follows = {}
  /\ writers = [w \in Writers |-> NoWrite]
  /\ pc = "idle"
  /\ did = NoDid
  /\ follows_dids = <<>>
  /\ cursor = FALSE
  /\ pages = 0
  /\ stats = NoStats
  /\ visit = NoVisit
  /\ last_recon = NoRecon
  /\ det_pc = "idle"
  /\ det_did = NoDid
  /\ db_follows = <<>>
  /\ current_follows = {}
  /\ det_pages = 0
  /\ det_todo = {}
  /\ det_hist = NoPass
  /\ credentials = FALSE
  /\ auth_token = FALSE
  /\ token_created_at = NoTime
  /\ token_expires_in = TokenLifetime
  /\ rate_limit_remaining = DefaultRemaining
  /\ rate_limit_reset = 0
  /\ time = 0
  /\ cl_pc = "new"
  /\ cl_method = "none"
  /\ cl_ret = "check"
  /\ cl_outer = <<>>
  /\ cl_hist = NoHist
  /\ run_pc = "stopped"
  /\ seed_handles = <<>>
  /\ max_accounts = 0
  /\ batch = <<>>
  /\ total_processed = 0
  /\ run_hist = NoRun
  /\ other_did = NoDid

Init ==
  /\ accounts = [d \in Subjects |-> [known |-> TRUE, crawl_status |-> "pending",
                                     crawl_priority |-> 0, last_crawled |-> NoTime]]
  /\ now = 0
  /\ InitOther

\* the priorities of the accounts of the queue when the run starts
InitialPriority == <<10, 5, 8>>

\* a row of the queue: never crawled, or completed at time t
QueueRow(d, t) ==
  [known |-> TRUE, crawl_status |-> IF t = NoTime THEN "pending" ELSE "completed",
   crawl_priority |-> InitialPriority[d], last_crawled |-> t]

\* the table of a queue in use, at time MaxTime: the first account waits for
\* its first crawl, the others do or were crawled before
InitRun ==
  /\ now = MaxTime
  /\ \E t2 \in {NoTime, 0, MaxTime}, t3 \in {NoTime, 0} :
       accounts = [d \in QueueDids |->
                     QueueRow(d, IF d = 2 THEN t2 ELSE IF d = 3 THEN t3 ELSE NoTime)]
  /\ InitOther

\* one db-queue worker visiting accounts
NextWorker ==
  \/ \E d \in Subjects : ProcessAccount(d)
  \/ GetProfile
  \/ MarkFailed
  \/ GetFollowsPage
  \/ FollowersChoice
  \/ GetFollowersPage
  \/ Reconcile
  \/ MarkCompleted
  \/ MarkError
  \/ Return

SpecWorker == Init /\ [][NextWorker]_vars

\* the writers of table `follows`: the reconciliation calls of the db-queue

\* one run of start(), its accounts following nobody and followed by accounts
\* of the queue
NextRun ==
  \/ RunStart
  \/ AddSeedAccount
  \/ GetNextAccounts
  \/ LoopExit
  \/ AddRecommendedAccounts
  \/ StartVisit
  \/ GetProfile
  \/ MarkFailed
  \/ GetFollowsPageOfNone
  \/ FollowersChoice
  \/ GetFollowersPageOfQueue
  \/ Reconcile
  \/ MarkCompleted
  \/ MarkError
  \/ FinishVisit
  \/ Sleep
  \/ Interrupt
  \/ Finally

SpecRun == InitRun /\ [][NextRun]_vars

\* the same run in a process that keeps being scheduled: the event loop of
\* asyncio.run executes start() as long as it has a step to take
SpecRunFair == SpecRun /\ WF_vars(NextRun)

\* the counters of a long run of start(): the queue answers with batches of
\* any size, each visit is one step
NextBatches ==
  \/ RunStartLong
  \/ PullBatch
  \/ ProcessAccountOfBatch
  \/ Sleep
  \/ UpdateAccountPriorities
  \/ LoopExit
  \/ Finally

SpecBatches == InitRun /\ [][NextBatches]_vars

\* two worker processes on one queue: a run of start(max_accounts = 1) and the
\* selections and marks of another process
NextWorkers ==
  \/ RunStartPlain
  \/ GetNextAccounts
  \/ LoopExit
  \/ AddRecommendedAccounts
  \/ StartVisit
  \/ GetProfile
  \/ MarkFailed
  \/ GetFollowsPageOfNone
  \/ FollowersChoice
  \/ GetFollowersPageOfQueue
  \/ Reconcile
  \/ MarkCompleted
  \/ MarkError
  \/ FinishVisit
  \/ Sleep
  \/ Finally
  \/ OtherSelect
  \/ OtherMark

SpecWorkers == InitRun /\ [][NextWorkers]_vars

\* workers, the unfollow detector and the crawler, as the clock advances
NextStore ==
  \/ WorkerReconcile
  \/ \E d \in Subjects : DetectorSelect(d)
  \/ DetectorFetchPage
  \/ DetectorMark
  \/ DetectorReturn
  \/ \E f \in Subjects, g \in Targets : StoreFollow(f, g)
  \/ Tick

SpecStore == Init /\ [][NextStore]_vars

\* the edge writers of the in-memory-queue crawler and of the database service,
\* each run by workers of their own, as the clock advances
NextWriters ==
  \/ \E w \in Writers, f \in Subjects, g \in Targets : StoreFollowCheck(w, f, g)
  \/ \E w \in Writers : StoreFollowWrite(w)
  \/ \E w \in Writers, f \in Subjects, g \in Targets : AddFollowCheck(w, f, g)
  \/ \E w \in Writers : AddFollowInsert(w)
  \/ Tick

SpecWriters == Init /\ [][NextWriters]_vars

\* one API client without credentials serving its caller
NextClient ==
  \/ Construct(FALSE)
  \/ \E m \in {"get_profile", "get_follows", "get_followers"} : Call(m)
  \/ Initialize
  \/ CheckToken
  \/ CheckLimit
  \/ Send
  \/ Receive
  \/ ReturnToCaller
  \/ ClientTick

SpecClient == Init /\ [][NextClient]_vars

\* the same client over the lifetime of its tokens, the server sending no
\* rate-limit headers
NextToken ==
  \/ \E c \in BOOLEAN : Construct(c)
  \/ \E m \in {"get_profile", "get_follows", "get_followers"} : Call(m)
  \/ Initialize
  \/ AuthSend
  \/ AuthReceive
  \/ CheckToken
  \/ CheckLimit
  \/ Send
  \/ ReceivePlain
  \/ ReturnToCaller
  \/ TokenTick

SpecToken == Init /\ [][NextToken]_vars

\* time.time() moves on between two calls of the client only, so that within
\* a call the clock moves by the sleep of _check_rate_limit and nothing else
TokenTickBetweenCalls == cl_pc = "idle" /\ TokenTickOf(LateClockSteps)

\* a client with credentials over the lifetime of its tokens, the server
\* advertising a low budget now and then
NextTokenWait ==
  \/ Construct(TRUE)
  \/ Call("get_follows")
  \/ Initialize
  \/ AuthSend
  \/ AuthReceive
  \/ CheckToken
  \/ CheckLimitLong
  \/ Send
  \/ ReceiveLow
  \/ ReturnToCaller
  \/ TokenTickBetweenCalls

SpecTokenWait == Init /\ [][NextTokenWait]_vars

\* ------------------------------------------------------------------ C1
\* C1: within a visit, process_account_follows is invoked only when no
\* getFollows page request of that visit failed.
\* Refuted: get_follows answers a failed page with an empty page,
\* _collect_all_follows ends its loop on it and the visit goes on to reconcile.
C1_ReconcileOnlyCompleteSet == visit.reconciled # "no" => ~visit.page_failed

\* ------------------------------------------------------------------ C2
\* C2: the detector retires an edge of a subject only in a pass in which no
\* page request of get_all_follows failed.
\* Refuted: get_all_follows ends its loop on a failed page and returns what
\* it has; the pass retires every stored edge outside that truncated set.
C2_RetireOnlyAfterCompleteFetch ==
  [][det_pc = "mark" /\ det_todo' # det_todo /\ follows' # follows
       => ~det_hist.page_failed]_vars

\* ------------------------------------------------------------------ C3
\* C3: one reconciliation of subject s with observed set F over stored active
\* set S leaves the active set of s equal to F, returns the counts
\* (|F \ S|, |F \cap S|, |S \ F|), inserts |F \ S| rows and retires the edges
\* to S \ F.
C3_DiffCorrect ==
  [][pc = "reconcile" /\ visit'.reconciled = "ok" =>
       LET S == ActiveSet(did)
           F == Range(follows_dids)
       IN /\ ActiveSet(did)' = F
          /\ stats'.new_follows_count = Cardinality(F \ S)
          /\ stats'.maintained_follows_count = Cardinality(F \cap S)
          /\ stats'.unfollowed_count = Cardinality(S \ F)
          /\ Cardinality(follows') = Cardinality(follows) + Cardinality(F \ S)
          /\ \A d \in S \ F :
               \E r \in follows' : /\ r.follower_did = did
                                   /\ r.following_did = d
                                   /\ r.follow_status = "unfollowed"]_vars

\* a reconciliation has just inserted one edge, refreshed one and retired one
C3_Witness ==
  /\ pc = "mark_completed"
  /\ stats = [new_follows_count |-> 1, maintained_follows_count |-> 1,
              unfollowed_count |-> 1]
  /\ Cardinality(ActiveSet(did)) = 2

\* ------------------------------------------------------------------ C4
\* C4: the store holds at most one row for each ordered pair
\* (follower_did, following_did).
\* Refuted: a target that left the observed set and reappears is not in the
\* stored active set, so the reconciliation inserts a second row beside the
\* retired one, which is never re-activated.
C4_OneRowPerPair ==
  \A r1 \in follows, r2 \in follows :
    r1.follower_did = r2.follower_did /\ r1.following_did = r2.following_did
      => r1 = r2

\* ------------------------------------------------------------------ C5
\* C5: a row that is unfollowed stays unfollowed, with unfollowed_at set, in
\* every step of the reconciliation, the detector and the crawler.
C5_UnfollowedStays ==
  [][\A r \in follows :
       r.follow_status = "unfollowed" =>
         \E q \in follows' : /\ q.id = r.id
                             /\ q.follow_status = "unfollowed"
                             /\ q.unfollowed_at # NoTime]_vars

\* a retired edge whose pair the crawler observed again after the retirement
C5_Witness ==
  \E r \in follows : /\ r.follow_status = "unfollowed"
                     /\ r.unfollowed_at # NoTime
                     /\ r.last_verified_at > r.unfollowed_at

\* ------------------------------------------------------------------ C6
\* C6: a reconciliation that directly follows one with the same subject and
\* the same observed set F reports new = 0 and unfollowed = 0, inserts and
\* retires nothing, and changes nothing but last_verified_at of the
\* maintained edges (the active edges of the subject into F).
C6_Idempotent ==
  [][last_recon'.runs = 2 =>
       LET s == last_recon'.did
           F == last_recon'.F
       IN /\ FollowStats(s, F).new_follows_count = 0
          /\ FollowStats(s, F).unfollowed_count = 0
          /\ {r.id : r \in follows'} = {r.id : r \in follows}
          /\ Cardinality(follows') = Cardinality(follows)
          /\ \A r \in follows :
               \E q \in follows' :
                 /\ q.id = r.id
                 /\ [q EXCEPT !.last_verified_at = r.last_verified_at] = r
                 /\ q # r => /\ r.follower_did = s
                             /\ r.following_did \in F
                             /\ r.follow_status = "active"]_vars

\* the second of two identical runs has refreshed a maintained edge at a
\* later time than the first
C6_Witness ==
  /\ last_recon.runs = 2
  /\ \E r \in follows : /\ r.follower_did = last_recon.did
                        /\ r.following_did \in last_recon.F
                        /\ r.follow_status = "active"
                        /\ r.last_verified_at > r.created_at

\* ------------------------------------------------------------------ C7
\* C7: a visit is marked completed only if its profile was fetched, no
\* getFollows page request failed and the reconciliation returned.
\* Refuted: a failed page ends the pagination like an empty one (see C1), the
\* truncated list is reconciled and the visit is marked completed.
C7_CompletedOnlyAfterFullVisit ==
  "completed" \in visit.marked =>
    visit.profile = "ok" /\ ~visit.page_failed /\ visit.reconciled = "ok"

\* ------------------------------------------------------------------ C8
\* C8: when get_profile returns None the visit issues the failed mark and
\* nothing else of the visit: no getFollows or getFollowers request, no
\* reconciliation, no completed mark; the account is failed once the store
\* has taken the mark, and the visit ends without an exception escaping.
C8_ProfileFailureStopsVisit ==
  visit.profile = "none" =>
    /\ pc \in {"mark_failed", "mark_error", "done"}
    /\ ~visit.follows_requested
    /\ ~visit.followers_requested
    /\ visit.reconciled = "no"
    /\ "completed" \notin visit.issued
    /\ pc # "mark_failed" => "failed" \in visit.issued
    /\ "failed" \in visit.marked => pc = "done" /\ accounts[did].crawl_status = "failed"

\* a visit whose profile fetch failed has ended with the account marked failed
C8_Witness ==
  /\ pc = "done"
  /\ visit.profile = "none"
  /\ visit.marked = {"failed"}
  /\ accounts[did].crawl_status = "failed"

\* ------------------------------------------------------------------ C9
\* C9: once a response has advertised a remaining budget below the low-water
\* mark together with reset time T, no request is sent strictly before T.
\* Refuted: get_profile sends the getProfile request of _get_profile_details
\* before it records the budget of the describeRepo response.
C9_NoRequestBeforeReset == ~cl_hist.sent.before_barrier

\* ------------------------------------------------------------------ C10
\* C10: after a response whose rate-limit headers are missing or malformed,
\* the next request is not sent before the 60 s cool-down has elapsed.
\* Refuted: the fallback leaves remaining = 10, which is not below the
\* low-water mark, and a response without ratelimit-limit changes nothing.
C10_NextRequestAfterCooldown == ~cl_hist.sent.before_cooldown

\* ------------------------------------------------------------------ C11
\* C11: when a client method has returned, the budget (remaining, reset) is
\* the one the rate-limit headers of the last response set, whatever the
\* status of that response.
\* Refuted: _update_rate_limit is called in the status-200 branches only.
C11_BudgetFollowsEveryResponse == cl_pc = "idle" => Budget = cl_hist.expected

\* ------------------------------------------------------------------ C12
\* C12: a request is sent after a call of _authenticate exactly when
\* credentials are configured and, when the client looked at its token, none
\* was held or the token was at least token_expires_in - 300 s old; a token
\* 3350 s old is refreshed first, a token 1000 s old is not.
C12_RefreshIffDue ==
  cl_pc = "recv" =>
    LET r == cl_hist.refresh
    IN /\ r.checked
       /\ r.done <=> credentials /\ (r.age = NoTime \/ r.age >= token_expires_in - 300)
       /\ credentials /\ r.age = 3350 => r.done
       /\ r.age = 1000 => ~r.done

\* a request goes out with a token obtained just before it, the previous
\* token having been 3350 s old
C12_Witness ==
  /\ cl_pc = "recv"
  /\ cl_hist.refresh.age = 3350
  /\ cl_hist.refresh.done
  /\ auth_token
  /\ token_created_at = time

\* C13: no failure inside the processing of one account leaves
\* _process_account: the visit never raises, and a visit that ended without
\* the completed mark (profile or transport failure, raising reconciliation,
\* raising mark) returns to the loop, which counts it and, unless it is shut
\* down, goes on with the next account of the batch.
C13_FailureStaysInVisit ==
  [][/\ pc' # "raised"
     /\ (run_pc = "visit" /\ pc = "done" /\ Outcome # "completed")
          => (run_pc' = "sleep" /\ batch' = batch
              /\ total_processed' = total_processed + 1)
     /\ (run_pc = "sleep" /\ batch # <<>> /\ ~run_hist'.shutdown)
          => (run_pc' = "next" /\ batch' = batch)
     /\ (run_pc = "next" /\ batch # <<>>)
          => (run_pc' = "visit" /\ did' = Head(batch))]_vars

\* a visit begins after a visit of the same batch that raised and whose error
\* mark failed too
C13_Witness ==
  /\ run_pc = "visit"
  /\ pc = "get_profile"
  /\ run_hist.last_outcome = "unmarked"
  /\ run_hist.started = run_hist.finished + 1

\* C14: the client hands every HTTP or network failure to its caller as a
\* value: get_follows and get_followers return the empty list when the request
\* is not answered with status 200, get_profile returns None exactly when the
\* identity lookup is not, and a failing detail lookup alone leaves the
\* identity result.
C14_FailuresReturnedAsValues ==
  cl_pc = "return" =>
    LET r == cl_hist.returned
    IN /\ r.method \in {"get_follows", "get_followers"}
            => r.value \in {"page", "empty"} /\ (r.value = "empty" <=> r.status # "ok")
       /\ r.method = "get_profile"
            => /\ r.value = "none" <=> ~r.identity_ok
               /\ (r.identity_ok /\ r.details \in {"error", "exception"})
                    => r.value = "identity"

\* get_profile returns after an answered identity lookup and a failed detail
\* lookup
C14_Witness ==
  /\ cl_pc = "return"
  /\ cl_hist.returned.method = "get_profile"
  /\ cl_hist.returned.identity_ok
  /\ cl_hist.returned.details = "error"
  /\ cl_hist.returned.value = "identity"

\* C15: with several workers on one queue, no account is inside
\* _process_account of two workers at the same time.
C15_OneWorkerPerAccount == ~(did # NoDid /\ other_did = did)

\* C16: get_accounts_to_crawl(limit, interval) answers with at most `limit`
\* accounts, all pending and stale, by crawl_priority descending and, among
\* equal priorities, the older crawl first (priorities 10, 5, 8 and limit 2:
\* the account of priority 10, then the one of priority 8); the loop visits
\* the batch one account at a time in that order.
C16_BatchInQueueOrder ==
  [][/\ (run_pc = "loop" /\ run_pc' = "next")
          => /\ Len(batch') <= batch_size
             /\ \A i \in 1..Len(batch') :
                  /\ accounts[batch'[i]].crawl_status = "pending"
                  /\ \/ accounts[batch'[i]].last_crawled = NoTime
                     \/ now - accounts[batch'[i]].last_crawled >= MinInterval
             /\ \A i, j \in 1..Len(batch') :
                  i < j =>
                    LET a == accounts[batch'[i]]
                        b == accounts[batch'[j]]
                    IN \/ a.crawl_priority > b.crawl_priority
                       \/ /\ a.crawl_priority = b.crawl_priority
                          /\ a.last_crawled <= b.last_crawled
             /\ (/\ \A d \in QueueDids : /\ accounts[d].crawl_status = "pending"
                                          /\ accounts[d].last_crawled = NoTime
                                          /\ accounts[d].crawl_priority = InitialPriority[d]
                 /\ batch_size = 2)
                  => batch' = <<1, 3>>
     /\ (run_pc = "next" /\ run_pc' = "visit")
          => (did' = batch[1] /\ batch' = Tail(batch))
     /\ (run_pc = "visit" /\ run_pc' = "visit") => batch' = batch]_vars

\* the second account of a batch of two is in its visit: of two seeds of
\* priority 100, the one never crawled went first
C16_Witness ==
  /\ run_pc = "visit"
  /\ did = 2
  /\ run_hist.visited = {1, 2}
  /\ run_hist.started = 2
  /\ accounts[2].crawl_priority = SeedPriority
  /\ accounts[2].last_crawled = 0

\* C17: the seeds of a run whose profile resolved are visited before any
\* other account in that run.
C17_SeedsFirst == ~run_hist.nonseed_first

\* C18: a shutdown signal lets the account in its visit be processed to the
\* end.
C18_InFlightAccountFinishes == run_hist.shutdown => ~run_hist.abandoned

\* C19: _process_account is entered at most max_accounts times in one start().
C19_AtMostMaxAccounts == run_hist.started <= max_accounts

\* C20: whenever start() has ended, the client session is closed and the
\* total reported, which is the number of visits that finished.
C20_AlwaysClosedAndReported ==
  run_pc \in {"ended", "raised"} =>
    /\ run_hist.closed
    /\ run_hist.reported = run_hist.finished

\* C21: within one visit the steps come in the order profile, follows,
\* followers (optional), reconciliation, mark: a getFollows request is only
\* outstanding before the reconciliation is issued, the reconciliation is
\* issued after the follows were requested, and the completed mark is only
\* issued after the reconciliation call returned.
C21_StepsInOrder ==
  /\ pc = "get_profile" => visit = NoVisit
  /\ pc \in {"collect_follows", "followers_choice", "collect_followers", "reconcile"}
       => visit.profile = "ok" /\ visit.reconciled = "no" /\ visit.issued = {}
  /\ pc = "collect_follows" => ~visit.followers_requested
  /\ pc \in {"followers_choice", "collect_followers", "reconcile"}
       => visit.follows_requested
  /\ pc = "mark_completed" => visit.reconciled = "ok" /\ visit.issued = {}
  /\ "completed" \in visit.issued
       => visit.reconciled = "ok" /\ visit.follows_requested

\* a visit that fetched two pages of follows, sampled followers, reconciled
\* and marked
C21_Witness ==
  /\ pc = "done"
  /\ Len(follows_dids) = 2
  /\ visit.followers_requested
  /\ visit.reconciled = "ok"
  /\ visit.marked = {"completed"}

\* C22: an exception raised after the profile was fetched (in the follower
\* sampling, the reconciliation or the completed mark) takes the visit to the
\* error mark, which is issued before the visit returns; and a visit whose
\* reconciliation call raised never issues the completed mark.
C22_ErrorMarkAfterException ==
  /\ (visit.raised /\ visit.profile = "ok")
       => /\ pc \in {"mark_error", "done"}
          /\ pc = "done" => "error" \in visit.issued
  /\ visit.reconciled = "raised" => "completed" \notin visit.issued

\* a visit whose reconciliation call raised has returned with the error mark
C22_Witness ==
  /\ pc = "done"
  /\ visit.reconciled = "raised"
  /\ visit.marked = {"error"}

\* C23: each time the total of processed accounts reaches a multiple of 50,
\* the priorities are recomputed before the next batch is pulled.
C23_RecomputeEveryPeriod ==
  ~(run_hist.owed /\ run_pc = "loop" /\ total_processed < max_accounts)

\* C24: an empty batch takes the loop to the replenishment; when that yields
\* accounts they are pending afterwards and the loop asks for a batch again,
\* and when it yields nothing or fails the run goes to its end without asking
\* for another batch.
C24_ReplenishBeforeEnd ==
  [][/\ (run_pc = "loop" /\ total_processed < max_accounts /\ batch' = <<>>)
          => run_pc' = "recommend"
     /\ run_pc = "recommend"
          => LET r == run_hist'.recommend
             IN /\ r.called
                /\ (r.ok /\ r.R # {})
                     => /\ run_pc' = "loop"
                        /\ total_processed' < max_accounts'
                        /\ \A d \in r.R : accounts'[d].crawl_status = "pending"
                /\ ~(r.ok /\ r.R # {}) => run_pc' = "finally"
     /\ run_pc = "finally" => run_pc' = "ended"
     /\ run_pc = "ended" => run_pc' = "ended"]_vars

\* the replenishment yielded two accounts that were not pending, and the loop
\* is about to ask for a batch again
C24_Witness ==
  /\ run_pc = "loop"
  /\ run_hist.recommend.ok
  /\ run_hist.recommend.R = {2, 3}
  /\ run_hist.finished = 1
  /\ accounts[2].crawl_priority = RecommendedPriority
  /\ accounts[3].crawl_priority = RecommendedPriority

\* C25: the edge changes of one pass over a subject are atomic: when the
\* unfollow detector has ended its updates for a subject, by finishing them
\* or by a store error, all the retirements it computed are applied or none.
C25_AllOrNothing ==
  (det_pc = "mark" /\ det_todo = {})
    => \/ det_hist.applied = {}
       \/ det_hist.applied = {db_follows[u] : u \in DOMAIN db_follows}

\* C26: every run of start() terminates: whatever the store answers, the loop
\* is eventually left and start() ends.
C26_RunTerminates == <>(run_pc \in {"ended", "raised"})

\* C27: the budget reflects the response received last: when get_profile
\* returns after a detail lookup that was answered (status 200, complete
\* rate-limit headers) after the identity lookup, the stored remaining and
\* reset values are the ones the detail response advertised.
C27_BudgetOfLastResponse ==
  (/\ cl_pc = "return"
   /\ cl_hist.returned.method = "get_profile"
   /\ cl_hist.returned.details = "ok"
   /\ cl_hist.last \in {"low", "enough"})
    => Budget = cl_hist.expected

\* C28: with credentials configured and every createSession request
\* succeeding, no request leaves with a token that has less than 300 s to
\* live, the requests that leave after a wait for the rate-limit reset
\* included.
C28_NoRequestNearExpiry ==
  (credentials /\ ~cl_hist.auth_failed) => ~cl_hist.sent.token_low

\* C29: enqueuing never lowers the priority of an account that is already
\* queued: an account other than the one being visited that is pending before
\* and after a step of follower sampling or of queue replenishment has a
\* crawl_priority that is not lower than before.
C29_EnqueueKeepsPriority ==
  [][\A d \in DOMAIN accounts :
       (/\ pc = "collect_followers" \/ run_pc = "recommend"
        /\ d # did
        /\ accounts[d].crawl_status = "pending"
        /\ accounts'[d].crawl_status = "pending")
       => accounts'[d].crawl_priority >= accounts[d].crawl_priority]_vars

\* C30: the check-then-insert edge writers never create a second row for the
\* same (follower_did, following_did) pair, whatever the calls and however
\* the steps of two workers interleave.
C30_NoSecondRow ==
  \A f \in Subjects, g \in Targets : Cardinality(RowsOfPair(f, g)) <= 1

====
